---- MODULE Spec2Model ----
(***************************************************************************)
(* Locomotion and grounding core of foxtrot-rapier: the five systems that  *)
(* GeneralMovementPlugin::build registers (update_grounded, apply_walking, *)
(* apply_jumping, reset_movement_components, play_animations), run once    *)
(* per frame in any order the registered constraints admit, together with  *)
(* the intent producers and followed by the physics step.                  *)
(*                                                                         *)
(* Vectors are pairs of integers in a plane that contains the character's  *)
(* up axis; up is one of the two unit axes, so that the decomposition      *)
(* along up, the normalisation of a horizontal vector and the division by  *)
(* dt are exact.  One unit of speed is below the approximately-zero        *)
(* tolerance of the animation selector.                                    *)
(***************************************************************************)
EXTENDS Integers, Sequences, FiniteSets, TLC

\* ------------------------------------------------------------------ bounds
MaxTicks == 2
MaxSpeed == 3

\* --------------------------------------------------------------- constants
\* Walking / Jumping tuning values (movement/general_movement/components.rs)
GroundAcceleration == 2
AerialAcceleration == 1
BrakingAcceleration == 2
StoppingSpeed == 3
JumpSpeed == 2
ApproxZeroSq == 1

Chars == {"player", "npc"}
DtSet == {1, 2}
Masses == {1, 2}
UpAxes == {<<0, 1>>, <<1, 0>>}
\* Option::None; Some(v) is the vector v itself
None == <<>>

\* ----------------------------------------------------------------- vectors
ZERO == <<0, 0>>
Add(a, b) == <<a[1] + b[1], a[2] + b[2]>>
Sub(a, b) == <<a[1] - b[1], a[2] - b[2]>>
Scale(a, k) == <<a[1] * k, a[2] * k>>
Neg(a) == <<0 - a[1], 0 - a[2]>>
Dot(a, b) == a[1] * b[1] + a[2] * b[2]
LengthSquared(a) == Dot(a, a)
Sgn(n) == IF n > 0 THEN 1 ELSE IF n < 0 THEN 0 - 1 ELSE 0
IDiv(n, k) == IF n >= 0 THEN n \div k ELSE 0 - ((0 - n) \div k)
DivVec(a, k) == <<IDiv(a[1], k), IDiv(a[2], k)>>

\* Vec3Ext::split: the components parallel and orthogonal to up
split(v, up) ==
    LET vertical == Scale(up, Dot(v, up))
    IN  [vertical |-> vertical, horizontal |-> Sub(v, vertical)]

\* Vec3Ext::is_approx_zero
is_approx_zero(v) == LengthSquared(v) <= ApproxZeroSq

\* Vec3::try_normalize on a horizontal vector (one non-zero component)
try_normalize(v) ==
    IF LengthSquared(v) = 0 THEN None ELSE <<Sgn(v[1]), Sgn(v[2])>>

\* the horizontal unit axis of a character whose up axis is up
Forward(up) == <<up[2], up[1]>>

\* ------------------------------------------------------------------- state
VARIABLES
    pc,               \* "update" | "end": position in the frame
    ran,              \* systems of the Update stage that already ran this frame
    tick,             \* frames completed
    dt,               \* Time::delta_seconds
    crashed,          \* a system panicked
    gameState,        \* State<GameState>
    up,               \* Up
    mass,             \* ReadMassProperties.0.mass
    hasPlayer,        \* AnimationEntityLink.0 holds an AnimationPlayer
    speed,            \* Jumping.speed
    grounded,         \* Grounded
    linvel,           \* Velocity.linvel
    force,            \* ExternalForce.force
    impulse,          \* ExternalImpulse.impulse
    direction,        \* Walking.direction
    jumpRequested,    \* Jumping.requested
    sprintRequested,  \* Sprinting.requested
    playing,          \* clip the character's AnimationPlayer plays
    cast,             \* history: result of this frame's shape cast
    jumpsFired,       \* history: jump impulses applied for the last request
    jumped,           \* history: characters apply_jumping launched this frame
    stopped,          \* history: characters apply_walking hard-stopped this frame
    killed,           \* history: velocity along up apply_jumping removed this frame
    appended,         \* history: force appended by the resolvers this frame
    animated,         \* history: characters play_animations handled this frame
    logged,           \* history: play_animations reported an error this frame
    ignored           \* history: characters whose pending jump request
                      \*          apply_jumping saw while they were not grounded

config == <<up, mass, hasPlayer, speed>>
body == <<grounded, linvel, force, impulse>>
intents == <<direction, jumpRequested, sprintRequested>>
frame == <<pc, ran, tick, dt, crashed, gameState>>
history == <<cast, jumpsFired, jumped, stopped, killed, appended, animated,
             logged, ignored>>
vars == <<frame, config, body, intents, playing, history>>

\* the systems SystemSet::on_update(GameState::Playing) holds
MovementSystems == {"update_grounded", "apply_walking", "apply_jumping",
                    "reset_movement_components", "play_animations"}

\* the systems of one frame's Update stage
Systems == MovementSystems \cup {"input_mapping"}

\* the orderings GeneralMovementPlugin::build declares: a pair <<a, b>> means
\* b was registered with .after(a)
Declared == {<<"update_grounded", "apply_walking">>}

\* the producers write before the Grounding Detector of the same frame
Expected == {<<"input_mapping", "update_grounded">>}

Before == Declared \cup Expected

Orders == {o \in [1..Cardinality(Chars) -> Chars] :
              \A i, j \in DOMAIN o : i # j => o[i] # o[j]}

\* position of character c in iteration order o
Pos(o, c) == CHOOSE i \in DOMAIN o : o[i] = c

\* enum GameState
GameStates == {"Loading", "Playing", "Menu"}

CanRun(s) ==
    /\ pc = "update"
    /\ gameState = "Playing"
    /\ ~crashed
    /\ s \notin ran
    /\ \A p \in Before : p[2] = s => p[1] \in ran

Clips == {"idle", "walk", "aerial"}
CastResults == {"miss", "hit", "hit_unnamed"}

\* -------------------------------------------------------------------- Init
\* the characters as their bundles are spawned
Spawned ==
    /\ speed = [c \in Chars |-> JumpSpeed]
    /\ up = [c \in Chars |-> IF c = "player" THEN <<0, 1>> ELSE <<1, 0>>]
    /\ mass = [c \in Chars |-> IF c = "player" THEN 1 ELSE 2]
    /\ grounded = [c \in Chars |-> FALSE]
    /\ linvel = [c \in Chars |-> ZERO]
    /\ force = [c \in Chars |-> ZERO]
    /\ impulse = [c \in Chars |-> ZERO]
    /\ direction = [c \in Chars |-> None]
    /\ jumpRequested = [c \in Chars |-> FALSE]
    /\ sprintRequested = [c \in Chars |-> FALSE]
    /\ playing = [c \in Chars |-> "none"]
    /\ cast = [c \in Chars |-> "pending"]
    /\ jumpsFired = [c \in Chars |-> 0]
    /\ jumped = {}
    /\ stopped = {}
    /\ killed = [c \in Chars |-> 0]
    /\ appended = [c \in Chars |-> ZERO]
    /\ animated = {}
    /\ logged = FALSE
    /\ ignored = {}

\* the state after spawning: neutral intents, body at rest, not grounded
Init ==
    /\ pc = "update" /\ ran = {} /\ tick = 0 /\ dt \in DtSet /\ crashed = FALSE
    /\ gameState = "Playing"
    /\ hasPlayer \in {h \in [Chars -> BOOLEAN] : h["player"]}
    /\ Spawned

\* ----------------------------------------------------------- the producers
\* Input mapping (PlayerEmbodiment) writes this frame's intents of the
\* player: a walk direction along its horizontal axis, a jump request, a
\* sprint request.  It writes only what is requested and leaves the other
\* fields alone; the npc is a character no producer drives.
input_mapping ==
    /\ CanRun("input_mapping")
    /\ \E walk \in {0, 1, 0 - 1}, jump \in BOOLEAN, sprint \in BOOLEAN :
        /\ direction' = [c \in Chars |->
               IF c = "player" /\ walk # 0
               THEN Scale(Forward(up[c]), walk)
               ELSE direction[c]]
        /\ jumpRequested' = [c \in Chars |->
               IF c = "player" /\ jump THEN TRUE ELSE jumpRequested[c]]
        /\ sprintRequested' = [c \in Chars |->
               IF c = "player" /\ sprint THEN TRUE ELSE sprintRequested[c]]
        /\ jumpsFired' = [c \in Chars |->
               IF c = "player" /\ jump THEN 0 ELSE jumpsFired[c]]
        /\ ignored' = IF jump THEN ignored \ {"player"} ELSE ignored
    /\ ran' = ran \cup {"input_mapping"}
    /\ UNCHANGED <<pc, tick, dt, crashed, gameState, config, body, playing,
                   cast, jumped, stopped, killed, appended, animated, logged>>

\* --------------------------------------------------------- update_grounded
\* Grounded::force_set / Grounded::is_grounded
is_grounded(c) == grounded[c]

\* an iteration that clears the flag when the shape cast returns nothing
GroundedAfterClearing(c, hit) == hit

\* one iteration of the loop of update_grounded for a character whose shape
\* cast returned a hit (hit = TRUE) or nothing
GroundedAfter(c, hit) ==
    LET falling == Dot(linvel[c], up[c]) < 0
    IN  IF ~falling /\ FALSE THEN FALSE
        ELSE IF hit THEN TRUE
        ELSE grounded[c]

\* The loop visits the characters in some order o; names.get(entity).unwrap()
\* panics on a hit entity that has no Name, before grounded is written.
update_grounded ==
    /\ CanRun("update_grounded")
    /\ \E o \in Orders, hits \in [Chars -> CastResults] :
        LET panics == {i \in DOMAIN o : hits[o[i]] = "hit_unnamed"}
            stop == IF panics = {} THEN Cardinality(Chars) + 1
                    ELSE CHOOSE i \in panics : \A j \in panics : i <= j
        IN  /\ grounded' = [c \in Chars |->
                   IF Pos(o, c) < stop
                   THEN GroundedAfter(c, hits[c] = "hit")
                   ELSE grounded[c]]
            /\ cast' = [c \in Chars |->
                   IF Pos(o, c) <= stop
                   THEN (IF hits[c] = "miss" THEN "miss" ELSE "hit")
                   ELSE cast[c]]
            /\ crashed' = (panics # {})
            /\ ran' = IF panics = {} THEN ran \cup {"update_grounded"} ELSE ran
    /\ UNCHANGED <<pc, tick, dt, gameState, config, linvel, force, impulse, intents,
                   playing, jumpsFired, jumped, stopped, killed, appended,
                   animated, logged, ignored>>

\* ----------------------------------------------------------- apply_walking
\* Walking::get_acceleration
get_acceleration(c, isGrounded) ==
    IF direction[c] = None THEN None
    ELSE Scale(direction[c],
               IF isGrounded THEN GroundAcceleration ELSE AerialAcceleration)

\* the force one iteration of apply_walking appends for character c when its
\* velocity is v
WalkingForceAt(c, v) ==
    LET acceleration == get_acceleration(c, is_grounded(c))
        velocity_components == split(v, up[c])
        braking_direction ==
            IF try_normalize(velocity_components.horizontal) = None THEN None
            ELSE Neg(try_normalize(velocity_components.horizontal))
    IN  IF acceleration # None THEN Scale(acceleration, mass[c])
        ELSE IF is_grounded(c)
        THEN IF LengthSquared(velocity_components.horizontal)
                    < StoppingSpeed * StoppingSpeed
             THEN ZERO
             ELSE IF braking_direction # None
             THEN Scale(Scale(braking_direction, BrakingAcceleration), mass[c])
             ELSE ZERO
        ELSE ZERO

\* apply_walking that brakes a character without walk intent in the air too
WalkingForceBrakesInAir(c) ==
    LET acceleration == get_acceleration(c, is_grounded(c))
        velocity_components == split(linvel[c], up[c])
        braking_direction ==
            IF try_normalize(velocity_components.horizontal) = None THEN None
            ELSE Neg(try_normalize(velocity_components.horizontal))
    IN  IF acceleration # None THEN Scale(acceleration, mass[c])
        ELSE IF is_grounded(c)
                /\ LengthSquared(velocity_components.horizontal)
                      < StoppingSpeed * StoppingSpeed
        THEN ZERO
        ELSE IF braking_direction # None
        THEN Scale(Scale(braking_direction, BrakingAcceleration), mass[c])
        ELSE ZERO

\* the force one iteration of apply_walking appends for character c
WalkingForce(c) == WalkingForceAt(c, linvel[c])

\* character c has no walk intent, is grounded and is slower than the
\* stopping speed
HardStops(c) ==
    /\ direction[c] = None
    /\ is_grounded(c)
    /\ LengthSquared(split(linvel[c], up[c]).horizontal)
          < StoppingSpeed * StoppingSpeed

\* the hard stop decided on the whole speed instead of the horizontal one
WalkingVelocityAtFullSpeed(c, v) ==
    LET acceleration == get_acceleration(c, is_grounded(c))
        velocity_components == split(v, up[c])
    IN  IF acceleration # None THEN v
        ELSE IF is_grounded(c)
                /\ LengthSquared(v) < StoppingSpeed * StoppingSpeed
        THEN velocity_components.vertical
        ELSE v

\* the velocity one iteration of apply_walking leaves character c with when
\* its velocity is v
WalkingVelocityAt(c, v) ==
    LET acceleration == get_acceleration(c, is_grounded(c))
        velocity_components == split(v, up[c])
    IN  IF acceleration # None THEN v
        ELSE IF is_grounded(c)
                /\ LengthSquared(velocity_components.horizontal)
                      < StoppingSpeed * StoppingSpeed
        THEN velocity_components.vertical
        ELSE v

\* apply_walking without the hard stop: the slow character keeps its velocity
WalkingVelocityNoStop(c) == linvel[c]

\* the velocity one iteration of apply_walking leaves character c with
WalkingVelocity(c) == WalkingVelocityAt(c, linvel[c])

apply_walking ==
    /\ CanRun("apply_walking")
    /\ force' = [c \in Chars |-> Add(force[c], WalkingForce(c))]
    /\ linvel' = [c \in Chars |-> WalkingVelocity(c)]
    /\ appended' = [c \in Chars |-> Add(appended[c], WalkingForce(c))]
    /\ ran' = ran \cup {"apply_walking"}
    /\ stopped' = {c \in Chars : HardStops(c)}
    /\ UNCHANGED <<pc, tick, dt, crashed, gameState, config, grounded, impulse, intents,
                   playing, cast, jumpsFired, jumped, killed, animated, logged,
                   ignored>>

\* ----------------------------------------------------------- apply_jumping
Jumps(c) == jumpRequested[c] /\ is_grounded(c)

\* up.0 * mass.0.mass * jump.speed / dt
JumpForce(c) == DivVec(Scale(Scale(up[c], mass[c]), speed[c]), dt)

\* velocity_components.horizontal of a character whose velocity is v
JumpingVelocityAt(c, v) == split(v, up[c]).horizontal

\* apply_jumping without the reset of the velocity along up
JumpingVelocityKept(c) == linvel[c]

\* velocity.linvel = velocity_components.horizontal
JumpingVelocity(c) == JumpingVelocityAt(c, linvel[c])

\* apply_jumping that also marks a launched character as airborne
apply_jumping_ungrounds ==
    /\ CanRun("apply_jumping")
    /\ force' = [c \in Chars |->
           IF Jumps(c) THEN Add(force[c], JumpForce(c)) ELSE force[c]]
    /\ linvel' = [c \in Chars |->
           IF Jumps(c) THEN JumpingVelocity(c) ELSE linvel[c]]
    /\ grounded' = [c \in Chars |-> IF Jumps(c) THEN FALSE ELSE grounded[c]]
    /\ appended' = [c \in Chars |->
           IF Jumps(c) THEN Add(appended[c], JumpForce(c)) ELSE appended[c]]
    /\ jumpsFired' = [c \in Chars |->
           IF Jumps(c) THEN jumpsFired[c] + 1 ELSE jumpsFired[c]]
    /\ jumped' = {c \in Chars : Jumps(c)}
    /\ ignored' = {c \in Chars : jumpRequested[c] /\ ~is_grounded(c)}
    /\ killed' = [c \in Chars |->
           IF Jumps(c) THEN Dot(linvel[c], up[c]) ELSE killed[c]]
    /\ ran' = ran \cup {"apply_jumping"}
    /\ UNCHANGED <<pc, tick, dt, crashed, gameState, config, impulse, intents,
                   playing, cast, stopped, animated, logged>>

apply_jumping ==
    /\ CanRun("apply_jumping")
    /\ force' = [c \in Chars |->
           IF Jumps(c) THEN Add(force[c], JumpForce(c)) ELSE force[c]]
    /\ linvel' = [c \in Chars |->
           IF Jumps(c) THEN JumpingVelocity(c) ELSE linvel[c]]
    /\ appended' = [c \in Chars |->
           IF Jumps(c) THEN Add(appended[c], JumpForce(c)) ELSE appended[c]]
    /\ jumpsFired' = [c \in Chars |->
           IF Jumps(c) THEN jumpsFired[c] + 1 ELSE jumpsFired[c]]
    /\ jumped' = {c \in Chars : Jumps(c)}
    /\ ignored' = {c \in Chars : jumpRequested[c] /\ ~is_grounded(c)}
    /\ killed' = [c \in Chars |->
           IF Jumps(c) THEN Dot(linvel[c], up[c]) ELSE killed[c]]
    /\ ran' = ran \cup {"apply_jumping"}
    /\ UNCHANGED <<pc, tick, dt, crashed, gameState, config, grounded, impulse, intents,
                   playing, cast, stopped, animated, logged>>

\* ----------------------------------------------- reset_movement_components
\* reset_movement_components that also brings every character to rest
reset_movement_components_stops ==
    /\ CanRun("reset_movement_components")
    /\ force' = [c \in Chars |-> ZERO]
    /\ impulse' = [c \in Chars |-> ZERO]
    /\ linvel' = [c \in Chars |-> ZERO]
    /\ direction' = [c \in Chars |-> None]
    /\ jumpRequested' = [c \in Chars |-> FALSE]
    /\ ignored' = {}
    /\ ran' = ran \cup {"reset_movement_components"}
    /\ UNCHANGED <<pc, tick, dt, crashed, gameState, config, grounded,
                   sprintRequested, playing, cast, jumpsFired, jumped,
                   stopped, killed, appended, animated, logged>>

reset_movement_components ==
    /\ CanRun("reset_movement_components")
    /\ force' = [c \in Chars |-> ZERO]
    /\ impulse' = [c \in Chars |-> ZERO]
    /\ direction' = [c \in Chars |-> None]
    /\ jumpRequested' = [c \in Chars |-> FALSE]
    /\ ignored' = {}
    /\ ran' = ran \cup {"reset_movement_components"}
    /\ UNCHANGED <<pc, tick, dt, crashed, gameState, config, grounded, linvel,
                   sprintRequested, playing, cast, jumpsFired, jumped,
                   stopped, killed, appended, animated, logged>>

\* --------------------------------------------------------- play_animations
\* the selector with the walk and idle branches exchanged
AnimationSwapped(c) ==
    IF ~is_grounded(c) THEN "aerial"
    ELSE IF is_approx_zero(split(linvel[c], up[c]).horizontal) THEN "walk"
    ELSE "idle"

\* the clip one iteration of the loop of play_animations plays
Animation(c) ==
    LET has_horizontal_movement ==
            ~is_approx_zero(split(linvel[c], up[c]).horizontal)
    IN  IF ~is_grounded(c) THEN "aerial"
        ELSE IF has_horizontal_movement THEN "walk"
        ELSE "idle"

\* The loop visits the characters in some order o; the ? on the lookup of
\* the animation player returns from the system at the first character
\* whose link holds no player, and log_errors logs the error.
play_animations ==
    /\ CanRun("play_animations")
    /\ \E o \in Orders :
        LET fails == {i \in DOMAIN o : ~hasPlayer[o[i]]}
            stop == IF fails = {} THEN Cardinality(Chars) + 1
                    ELSE CHOOSE i \in fails : \A j \in fails : i <= j
        IN  /\ playing' = [c \in Chars |->
                   IF Pos(o, c) < stop THEN Animation(c) ELSE playing[c]]
            /\ animated' = {c \in Chars : Pos(o, c) < stop}
            /\ logged' = (fails # {})
    /\ ran' = ran \cup {"play_animations"}
    /\ UNCHANGED <<pc, tick, dt, crashed, gameState, config, body, intents,
                   cast, jumpsFired, jumped, stopped, killed, appended,
                   ignored>>

\* ------------------------------------------------------------ physics step
\* The engine's step after the Update stage: it integrates the accumulated
\* force over dt and the impulse into the velocity and clears the impulse;
\* ExternalForce stays as the systems left it.
Integrate(c) ==
    Add(Add(linvel[c], DivVec(Scale(force[c], dt), mass[c])),
        DivVec(impulse[c], mass[c]))

physics_step ==
    /\ pc = "update"
    /\ ~crashed
    /\ ran = Systems
    /\ linvel' = [c \in Chars |-> Integrate(c)]
    /\ impulse' = [c \in Chars |-> ZERO]
    /\ pc' = "end"
    /\ UNCHANGED <<ran, tick, dt, crashed, gameState, config, grounded, force, intents,
                   playing, history>>

\* the next frame begins (at the frame rate of the run)
next_frame ==
    /\ pc = "end"
    /\ tick + 1 < MaxTicks
    /\ pc' = "update"
    /\ ran' = {}
    /\ tick' = tick + 1
    /\ dt' = dt
    /\ cast' = [c \in Chars |-> "pending"]
    /\ jumped' = {}
    /\ stopped' = {}
    /\ killed' = [c \in Chars |-> 0]
    /\ appended' = [c \in Chars |-> ZERO]
    /\ animated' = {}
    /\ logged' = FALSE
    /\ UNCHANGED <<crashed, gameState, config, body, intents, playing,
                   jumpsFired, ignored>>

Next ==
    \/ input_mapping
    \/ update_grounded
    \/ apply_walking
    \/ apply_jumping
    \/ reset_movement_components
    \/ play_animations
    \/ physics_step
    \/ next_frame

Spec == Init /\ [][Next]_vars

TypeOK ==
    /\ pc \in {"update", "end"}
    /\ ran \subseteq Systems
    /\ tick \in 0..MaxTicks
    /\ grounded \in [Chars -> BOOLEAN]
    /\ playing \in [Chars -> Clips \cup {"none"}]

\* ------------------------------------------------- one frame, any character
\* The resolvers, the reset and the selector of one frame, started from any
\* state the producers and the Grounding Detector can leave behind: any
\* grounded flag, any velocity up to MaxSpeed per axis, a force left in the
\* accumulator or none, any walk direction and jump request, any clip
\* playing.  The npc is a second character that differs from the player only
\* in the sign of its velocity along up.
Speeds == (0 - MaxSpeed)..MaxSpeed
Velocities == Speeds \X Speeds
PriorClips == {"walk", "aerial"}

\* reflection of v in the plane orthogonal to axis
Mirror(v, axis) == Sub(v, Scale(axis, 2 * Dot(v, axis)))

InitFrame(jump_speed) ==
    /\ pc = "update"
    /\ gameState = "Playing"
    /\ speed = [c \in Chars |-> jump_speed]
    /\ ran = {"input_mapping", "update_grounded"}
    /\ tick = 0
    /\ dt \in DtSet
    /\ crashed = FALSE
    /\ \E u \in UpAxes, m \in Masses, g \in BOOLEAN, v \in Velocities,
          f \in {0, 1}, w \in {0, 1, 0 - 1}, j \in BOOLEAN, p \in PriorClips :
        /\ up = [c \in Chars |-> u]
        /\ mass = [c \in Chars |-> m]
        /\ grounded = [c \in Chars |-> g]
        /\ linvel = [c \in Chars |-> IF c = "player" THEN v ELSE Mirror(v, u)]
        /\ force = [c \in Chars |->
               Scale(Forward(u), f * GroundAcceleration * m)]
        /\ direction = [c \in Chars |->
               IF w = 0 THEN None ELSE Scale(Forward(u), w)]
        /\ jumpRequested = [c \in Chars |-> j]
        /\ playing = [c \in Chars |-> p]
        /\ cast = [c \in Chars |-> IF g THEN "hit" ELSE "miss"]
    /\ hasPlayer = [c \in Chars |-> TRUE]
    /\ impulse = [c \in Chars |-> ZERO]
    /\ sprintRequested = [c \in Chars |-> FALSE]
    /\ jumpsFired = [c \in Chars |-> 0]
    /\ jumped = {}
    /\ stopped = {}
    /\ killed = [c \in Chars |-> 0]
    /\ appended = [c \in Chars |-> ZERO]
    /\ animated = {}
    /\ logged = FALSE
    /\ ignored = {}

InitAny == InitFrame(JumpSpeed)

NextFrame ==
    \/ apply_walking
    \/ apply_jumping
    \/ reset_movement_components
    \/ play_animations
    \/ physics_step

SpecFrame == InitAny /\ [][NextFrame]_vars

\* the same frame for characters whose Jumping.speed is negative
InitNegativeJump == InitFrame(0 - JumpSpeed)

SpecNegativeJump == InitNegativeJump /\ [][NextFrame]_vars

\* ------------------------------------------------------------ system sets
\* The schedules of one frame and the system sets configured in them.  A set
\* is in ran once its systems ran in the current frame.
MaxFrames == 4

\* the schedules in the order they run in a frame
Schedules == <<"Update", "PhysicsSchedule", "PostUpdate">>

\* the tuple system_set::plugin chains in Update
UpdateChain == <<"AfterSpawn", "YarnSpinnerSystemSet", "ColliderSpawn",
                 "Navigation", "PlayerEmbodiment", "GeneralMovement",
                 "PlayAnimation", "UpdateInteractionOpportunities", "Dialog",
                 "ExampleYarnSpinnerDialogueViewSystemSet">>

\* (a, b, ...).chain(): each set before the next one
UpdateOrder ==
    {<<UpdateChain[i], UpdateChain[i + 1]>> : i \in 1..(Len(UpdateChain) - 1)}

\* the sets physics::plugin fills in PhysicsSchedule
PhysicsSets == {"SyncBackend", "StepSimulation", "Writeback"}

\* the orderings physics::plugin declares between them
PhysicsOrder == {}

CameraSets == {"CameraUpdate", "DollyUpdateSet"}

\* (CameraUpdate, DollyUpdateSet) without .chain()
PostUpdateOrderUnchained ==
    ({"Writeback"} \X CameraSets) \cup (CameraSets \X {"TransformPropagate"})

\* (CameraUpdate, DollyUpdateSet).chain().after(Writeback)
\*     .before(TransformPropagate)
PostUpdateOrder ==
    {<<"CameraUpdate", "DollyUpdateSet">>}
        \cup ({"Writeback"} \X CameraSets)
        \cup (CameraSets \X {"TransformPropagate"})

SetOrder == UpdateOrder \cup PhysicsOrder \cup PostUpdateOrder

Members(schedule) ==
    CASE schedule = "Update" -> {UpdateChain[i] : i \in DOMAIN UpdateChain}
      [] schedule = "PhysicsSchedule" -> PhysicsSets
      [] schedule = "PostUpdate" -> CameraSets \cup {"TransformPropagate"}

\* the sets configured with .run_if(in_state(GameState::Playing))
PlayingOnly == {"ColliderSpawn", "UpdateInteractionOpportunities",
                "Navigation", "PlayerEmbodiment", "GeneralMovement",
                "PlayAnimation", "Dialog"} \cup CameraSets

RunCondition(set) == set \in PlayingOnly => gameState = "Playing"

\* the set ran, or its run condition skips it in this frame
Passed(set) == set \in ran \/ ~RunCondition(set)

\* the executor runs a set whose predecessors in the same schedule are over
run_set ==
    /\ pc \in {Schedules[i] : i \in DOMAIN Schedules}
    /\ \E set \in Members(pc) \ ran :
        /\ RunCondition(set)
        /\ \A o \in SetOrder :
               (o[2] = set /\ o[1] \in Members(pc)) => Passed(o[1])
        /\ ran' = ran \cup {set}
    /\ UNCHANGED <<pc, tick, dt, crashed, gameState, config, body, intents,
                   playing, history>>

\* a schedule is over when every set of it ran or was skipped
next_schedule ==
    /\ \E i \in 1..(Len(Schedules) - 1) :
        /\ pc = Schedules[i]
        /\ pc' = Schedules[i + 1]
    /\ \A set \in Members(pc) : Passed(set)
    /\ UNCHANGED <<ran, tick, dt, crashed, gameState, config, body, intents,
                   playing, history>>

\* the next frame starts after a state transition, or in the same state
next_state ==
    /\ pc = Schedules[Len(Schedules)]
    /\ \A set \in Members(pc) : Passed(set)
    /\ tick + 1 < MaxFrames
    /\ pc' = Schedules[1]
    /\ ran' = {}
    /\ tick' = tick + 1
    /\ gameState' \in GameStates
    /\ UNCHANGED <<dt, crashed, config, body, intents, playing, history>>

\* app.add_state(GameState::Loading)
InitSets ==
    /\ pc = Schedules[1] /\ ran = {} /\ tick = 0 /\ dt = 1 /\ crashed = FALSE
    /\ gameState = "Loading"
    /\ hasPlayer = [c \in Chars |-> TRUE]
    /\ Spawned

NextSets == run_set \/ next_schedule \/ next_state

SpecSets == InitSets /\ [][NextSets]_vars

\* ------------------------------------------------------------------ claims
Ran(s) == s \in ran
Runs(s) == s \notin ran /\ s \in ran'
UpdateDone == pc = "update" /\ ran = Systems

\* C1: after Intent Reset has run, every character has no walk direction, no
\* jump request, no sprint request, a zero force accumulator and a zero impulse
\* accumulator, whatever the fields held before.
C1_ResetClearsEveryIntent ==
    [][Runs("reset_movement_components") =>
          \A c \in Chars :
              /\ direction'[c] = None
              /\ ~jumpRequested'[c]
              /\ ~sprintRequested'[c]
              /\ force'[c] = ZERO
              /\ impulse'[c] = ZERO]_vars

\* C2: one jump request written by the producer causes at most one application
\* of the jump impulse, over any sequence of frames and any admissible order.
C2_JumpFiresAtMostOnce == \A c \in Chars : jumpsFired[c] <= 1

\* C3: Intent Reset runs once per frame, after every consumer of the frame's
\* intents (apply_walking, apply_jumping, play_animations) and not between
\* the producers and a consumer.
C3_ResetAfterConsumers ==
    Ran("reset_movement_components") =>
        /\ Ran("apply_walking")
        /\ Ran("apply_jumping")
        /\ Ran("play_animations")

\* C4: in a frame whose shape cast reported no ground hit for a character,
\* apply_jumping does not apply the jump force to that character even though
\* a jump is requested, whatever happened in earlier frames.
C4_NoJumpWithoutGroundHit ==
    \A c \in Chars : (UpdateDone /\ cast[c] = "miss") => c \notin jumped

\* C6: when the physics step integrates, the accumulator of every character
\* holds exactly the force the resolvers appended in this frame: nothing was
\* cleared before the integration and nothing is left from an earlier frame.
C6_AppendedForceIsIntegrated ==
    UpdateDone => \A c \in Chars : force[c] = appended[c]

\* C7: update_grounded has completed before apply_walking and before
\* apply_jumping run, in every frame and under every admissible order.
C7_GroundingBeforeResolvers ==
    /\ Ran("apply_walking") => Ran("update_grounded")
    /\ Ran("apply_jumping") => Ran("update_grounded")

\* C8: when one character's link holds no animation player, play_animations
\* reports the failure and still plays the animation of every other character,
\* whatever the iteration order.
C8_AnimationFailureIsPerCharacter ==
    (Ran("play_animations") /\ \E c \in Chars : ~hasPlayer[c]) =>
        /\ logged
        /\ \A c \in Chars : hasPlayer[c] => c \in animated

\* two characters alike in everything apply_jumping reads, except for the
\* velocity along up
Twins(c, d) ==
    /\ up[c] = up[d] /\ mass[c] = mass[d]
    /\ grounded[c] = grounded[d] /\ jumpRequested[c] = jumpRequested[d]
    /\ force[c] = force[d]
    /\ split(linvel[c], up[c]).horizontal = split(linvel[d], up[d]).horizontal

\* C5: for a grounded character with a jump request, apply_jumping zeroes the
\* velocity along up, keeps the horizontal velocity and adds
\* up * mass * speed / dt to the force accumulator; two characters that
\* differ only in the velocity along up leave apply_jumping with the same
\* velocity and force, and with the same velocity once the force is
\* integrated.
C5_JumpIndependentOfVerticalVelocity ==
    [][Runs("apply_jumping") =>
          /\ \A c \in Chars : (grounded[c] /\ jumpRequested[c]) =>
                /\ Dot(linvel'[c], up[c]) = 0
                /\ linvel'[c][1] * (1 - up[c][1]) = linvel[c][1] * (1 - up[c][1])
                /\ linvel'[c][2] * (1 - up[c][2]) = linvel[c][2] * (1 - up[c][2])
                /\ Scale(Sub(force'[c], force[c]), dt)
                      = Scale(up[c], mass[c] * speed[c])
          /\ \A c, d \in Chars :
                (Twins(c, d) /\ grounded[c] /\ jumpRequested[c]) =>
                    /\ linvel'[c] = linvel'[d]
                    /\ force'[c] = force'[d]
                    /\ Add(linvel'[c], DivVec(Scale(force'[c], dt), mass[c]))
                          = Add(linvel'[d], DivVec(Scale(force'[d], dt), mass[d]))
       ]_vars

\* C5 witness: apply_jumping has launched two characters whose velocities
\* along up had opposite signs, and both now move horizontally only
C5_Witness ==
    /\ jumped = Chars
    /\ killed["player"] > 0 /\ killed["npc"] < 0
    /\ ~Ran("apply_walking") /\ ~Ran("reset_movement_components")
    /\ linvel["player"] = linvel["npc"]
    /\ linvel["player"] # ZERO
    /\ Dot(linvel["player"], up["player"]) = 0
    /\ force["player"] # Scale(up["player"], mass["player"] * JumpSpeed)
    /\ dt = 2

\* C9: the clip play_animations plays is Aerial when the character is not
\* grounded, Walk when it is grounded and its horizontal speed is not
\* approximately zero, Idle when it is grounded and its horizontal speed is
\* approximately zero, whatever clip was playing before.
C9_ClipFromGroundedAndSpeed ==
    [][Runs("play_animations") =>
          \A c \in animated' :
              LET h == Sub(linvel[c], Scale(up[c], Dot(linvel[c], up[c])))
                  still == Dot(h, h) <= ApproxZeroSq
              IN  /\ ~grounded[c] => playing'[c] = "aerial"
                  /\ (grounded[c] /\ ~still) => playing'[c] = "walk"
                  /\ (grounded[c] /\ still) => playing'[c] = "idle"
       ]_vars

\* C9 witness: the selector has replaced another clip by Idle for a grounded
\* character whose horizontal speed is approximately, but not exactly, zero
C9_Witness ==
    /\ Ran("play_animations")
    /\ ~Ran("apply_walking") /\ ~Ran("apply_jumping") /\ pc = "update"
    /\ "player" \in animated
    /\ grounded["player"]
    /\ playing["player"] = "idle"
    /\ split(linvel["player"], up["player"]).horizontal # ZERO

\* C10: a character that has no walk direction, is grounded and is slower
\* than the stopping speed when apply_walking runs keeps its velocity along
\* up, gets no force appended by apply_walking, and has a horizontal velocity
\* of exactly zero from then to the end of the frame, physics step included.
C10_HardStop ==
    /\ [][Runs("apply_walking") =>
             \A c \in Chars :
                 (direction[c] = None /\ grounded[c]
                      /\ LengthSquared(split(linvel[c], up[c]).horizontal)
                            < StoppingSpeed * StoppingSpeed) =>
                     /\ Dot(linvel'[c], up[c]) = Dot(linvel[c], up[c])
                     /\ force'[c] = force[c]
                     /\ c \in stopped'
          ]_vars
    /\ [](\A c \in stopped :
             Sub(linvel[c], Scale(up[c], Dot(linvel[c], up[c]))) = ZERO)

\* C10 witness: the frame has ended for a character that apply_walking
\* stopped while it moved both horizontally and along up
C10_Witness ==
    /\ pc = "end"
    /\ "player" \in stopped
    /\ "player" \notin jumped
    /\ Dot(linvel["player"], up["player"]) # 0
    /\ linvel["npc"] # linvel["player"]

\* C11: the grounded flag is written by update_grounded only: a step of
\* apply_walking, apply_jumping, reset_movement_components or play_animations
\* leaves the grounded flag of every character as it was, in every state.
C11_OnlyDetectorWritesGrounded ==
    [][(\/ Runs("apply_walking")
        \/ Runs("apply_jumping")
        \/ Runs("reset_movement_components")
        \/ Runs("play_animations")) => grounded' = grounded]_vars

\* all four systems ran in a frame in which the player, grounded, was launched
C11_Witness ==
    /\ pc = "update"
    /\ ran = Systems
    /\ "player" \in jumped
    /\ grounded["player"]
    /\ playing["player"] \in Clips

\* C12: a step of reset_movement_components leaves grounded, linear velocity
\* and mass of every character unchanged.
C12_ResetKeepsBody ==
    [][Runs("reset_movement_components") =>
          /\ grounded' = grounded
          /\ linvel' = linvel
          /\ mass' = mass]_vars

\* the reset ran first in the frame on a grounded, moving, heavy player
C12_Witness ==
    /\ Ran("reset_movement_components")
    /\ ~Ran("apply_walking")
    /\ ~Ran("apply_jumping")
    /\ ~Ran("play_animations")
    /\ grounded["player"]
    /\ linvel["player"] # ZERO
    /\ mass["player"] = 2
    /\ direction["player"] = None

\* C13: within a tick the force accumulator is append-only: a step of
\* apply_walking or apply_jumping adds exactly that system's contribution, and
\* once something was appended to a character's accumulator in the tick, no
\* step before the integration changes it other than by appending.
C13_AccumulatorAppendOnly ==
    [][pc = "update" =>
          \A c \in Chars :
              (\/ Runs("apply_walking")
               \/ Runs("apply_jumping")
               \/ appended[c] # ZERO)
              => force'[c] = Add(force[c], Sub(appended'[c], appended[c]))]_vars

\* C14: a negative jump speed is treated as zero: when apply_jumping runs on
\* a grounded character with a jump request and a negative Jumping.speed, the
\* force it adds has no component against up.
C14_NegativeJumpIsNoOp ==
    [][Runs("apply_jumping") =>
          \A c \in Chars :
              (speed[c] < 0 /\ jumpRequested[c] /\ is_grounded(c))
              => Dot(Sub(force'[c], force[c]), up[c]) >= 0]_vars

C16_AnimationSeesSameTickVelocity ==
    \A c \in Chars :
        (/\ tick = 0
         /\ pc = "end"
         /\ is_grounded(c)
         /\ appended[c] # ZERO
         /\ Dot(appended[c], up[c]) = 0
         /\ ~is_approx_zero(split(linvel[c], up[c]).horizontal)
         /\ c \in animated)
        => playing[c] = "walk"

\* C17: in every tick the intent producers have written before the Grounding
\* Detector and the force resolvers run, and the movement systems have run
\* before the animations are played.
C17_ProducersThenMovementThenAnimation ==
    /\ \A s \in {"update_grounded", "apply_walking", "apply_jumping"} :
           Ran(s) => Ran("input_mapping")
    /\ Ran("play_animations")
           => \A s \in {"update_grounded", "apply_walking", "apply_jumping"} :
                  Ran(s)

C19_UngroundedRequestIsDropped ==
    [][Runs("apply_jumping") =>
          \A c \in Chars :
              /\ (~is_grounded(c) \/ ~jumpRequested[c])
                     => (force'[c] = force[c] /\ linvel'[c] = linvel[c])
              /\ c \in ignored => c \notin jumped']_vars

\* C20: for a character without walk direction that is not grounded,
\* apply_walking appends no force and leaves the linear velocity unchanged.
C20_NoIntentInAirIsNoOp ==
    [][Runs("apply_walking") =>
          \A c \in Chars :
              (direction[c] = None /\ ~is_grounded(c))
              => (force'[c] = force[c] /\ linvel'[c] = linvel[c])]_vars

\* apply_walking was the first resolver to run on an airborne player without
\* walk direction that moves slowly sideways, with a force in its accumulator
C20_Witness ==
    /\ ran = {"input_mapping", "update_grounded", "apply_walking"}
    /\ direction["player"] = None
    /\ ~grounded["player"]
    /\ Dot(linvel["player"], Forward(up["player"])) = 1
    /\ Dot(linvel["player"], up["player"]) < 0
    /\ force["player"] # ZERO

\* C21: in every physics tick the three sub-phases of the physics engine run
\* in the order SyncBackend, StepSimulation, Writeback: StepSimulation never
\* runs before SyncBackend ran, nor Writeback before StepSimulation ran.
C21_PhysicsSetsInOrder ==
    /\ Ran("StepSimulation") => Ran("SyncBackend")
    /\ Ran("Writeback") => Ran("StepSimulation")

\* one iteration of apply_walking on character c with velocity v and
\* accumulator f
WalkOn(c, v, f) ==
    [linvel |-> WalkingVelocityAt(c, v), force |-> Add(f, WalkingForceAt(c, v))]

\* one iteration of apply_jumping on character c with velocity v and
\* accumulator f
JumpOn(c, v, f) ==
    IF Jumps(c)
    THEN [linvel |-> JumpingVelocityAt(c, v), force |-> Add(f, JumpForce(c))]
    ELSE [linvel |-> v, force |-> f]

\* C22: apply_walking and apply_jumping commute: whichever of the two runs
\* first in a frame, running the other one on the state it leaves gives the
\* same accumulator and the same linear velocity as the opposite order gives
\* from the state before, for every character.
C22_ResolversCommute ==
    [][/\ (Runs("apply_walking") /\ ~Ran("apply_jumping")) =>
              \A c \in Chars :
                  LET jumped_first == JumpOn(c, linvel[c], force[c])
                  IN  JumpOn(c, linvel[c], force[c])'
                        = WalkOn(c, jumped_first.linvel, jumped_first.force)
       /\ (Runs("apply_jumping") /\ ~Ran("apply_walking")) =>
              \A c \in Chars :
                  LET walked_first == WalkOn(c, linvel[c], force[c])
                  IN  WalkOn(c, linvel[c], force[c])'
                        = JumpOn(c, walked_first.linvel, walked_first.force)]_vars

\* the hard stop and the jump both fired on a player that was rising and on
\* an npc that was falling, and nothing else ran since
C22_Witness ==
    /\ ran = {"input_mapping", "update_grounded", "apply_walking",
              "apply_jumping"}
    /\ stopped = Chars
    /\ jumped = Chars
    /\ killed["player"] > 0
    /\ killed["npc"] < 0
    /\ linvel["player"] = ZERO
    /\ force["player"] # appended["player"]

\* C23: update_grounded completes for every character and every cast result:
\* no run of it panics, whatever entity the shape cast hits.
C23_GroundingNeverPanics == ~crashed
====
